---------------------------- MODULE Spec2Model ----------------------------
(***************************************************************************)
(* A model of the UMD container decoder of umd_metadata_ng/umd_io.py:      *)
(* UMDFile.read_metadata, read_content, read_cover and from_stream, run   *)
(* over a byte stream.  Bytes are the integers 0..255, a stream is a       *)
(* sequence of bytes with a read position, text is a sequence of code      *)
(* points, and a raised exception is recorded by its Python class name.    *)
(***************************************************************************)
EXTENDS Integers, Sequences, FiniteSets, TLC

(***************************************************************************)
(* Bounds of the model.                                                    *)
(***************************************************************************)
MaxChapters == 2        \* chapters of a generated book: 0..MaxChapters
MaxSpin == 2            \* iterations of a non-consuming loop that are followed
LongTitleLen == 64      \* code units of the long chapter title (128 bytes)

(***************************************************************************)
(* Constants of the format, as the decoder spells them.                    *)
(***************************************************************************)
HASH == 35              \* b'#'
DOLLAR == 36            \* b'$'
TAG_CATEGORY == 1
TAG_TEXT_FIRST == 2
TAG_TEXT_END == 10
TAG_FULL_LENGTH == 11
TAG_CHAPTER_OFFSETS == 131
TAG_CHAPTER_TITLES == 132
END_OF_BODY == 129
CTRL_F1 == 241
CTRL_0A == 10
TAG_COVER == 130
TAG_END_OF_FILE == 12
LEN_OVERHEAD == 9       \* "raw - 9" of every encoded length
TEXT_OVERHEAD == 5      \* "raw_length - 5" of the text blocks

MAGIC == <<137, 155, 154, 222>>

(***************************************************************************)
(* Integers and sequences.                                                 *)
(***************************************************************************)
Min(a, b) == IF a <= b THEN a ELSE b
Max(a, b) == IF a >= b THEN a ELSE b

RECURSIVE Pow256(_)
Pow256(i) == IF i = 0 THEN 1 ELSE 256 * Pow256(i - 1)

\* struct.pack("<h" / "<i" / "<b" / "<H", n): w little-endian bytes, two's complement
Pack(n, w) == [i \in 1..w |-> (n \div Pow256(i - 1)) % 256]

RECURSIVE UnsignedLE(_)
UnsignedLE(bs) ==
    IF bs = <<>> THEN 0 ELSE Head(bs) + 256 * UnsignedLE(Tail(bs))

\* struct.unpack of a signed field ("<b", "<h", "<i")
SignedLE(bs) ==
    LET w == Len(bs)
        top == bs[w]
    IN  UnsignedLE(SubSeq(bs, 1, w - 1))
          + (IF top >= 128 THEN top - 256 ELSE top) * Pow256(w - 1)

\* int(a / b) for b > 0: true division, then truncation toward zero
TruncDiv(a, b) == IF a >= 0 THEN a \div b ELSE -((-a) \div b)

RECURSIVE Flatten(_)
Flatten(ss) == IF ss = <<>> THEN <<>> ELSE Head(ss) \o Flatten(Tail(ss))

\* Python's s[a:b] and s[a:] (negative indices count from the end, then clamp)
PyIndex(i, n) == IF i < 0 THEN Max(i + n, 0) ELSE Min(i, n)
PySlice(s, a, b) == SubSeq(s, PyIndex(a, Len(s)) + 1, PyIndex(b, Len(s)))
PySliceFrom(s, a) == SubSeq(s, PyIndex(a, Len(s)) + 1, Len(s))

(***************************************************************************)
(* bytes.decode("utf-16-le"), strict: an odd byte count or an unpaired     *)
(* surrogate raises UnicodeDecodeError; a surrogate pair is one character. *)
(***************************************************************************)
IsHighSurrogate(u) == u >= 55296 /\ u <= 56319
IsLowSurrogate(u) == u >= 56320 /\ u <= 57343

\* the 16-bit code units of an even number of bytes
CodeUnits(bs) == [i \in 1..(Len(bs) \div 2) |-> bs[2 * i - 1] + 256 * bs[2 * i]]

\* every high surrogate is followed by a low one, every low one follows a high one
WellPaired(us) ==
    \A i \in DOMAIN us :
        /\ IsHighSurrogate(us[i]) => (i < Len(us) /\ IsLowSurrogate(us[i + 1]))
        /\ IsLowSurrogate(us[i]) => (i > 1 /\ IsHighSurrogate(us[i - 1]))

CodePoints(us) ==
    LET starts == SelectSeq([i \in 1..Len(us) |-> i], LAMBDA i : ~IsLowSurrogate(us[i]))
    IN  [k \in 1..Len(starts) |->
            LET u == us[starts[k]] IN
            IF IsHighSurrogate(u)
            THEN 65536 + (u - 55296) * 1024 + (us[starts[k] + 1] - 56320)
            ELSE u]

DecodeUtf16(bs) ==
    IF Len(bs) % 2 = 1 \/ ~WellPaired(CodeUnits(bs)) THEN [ok |-> FALSE, str |-> <<>>]
    ELSE [ok |-> TRUE, str |-> CodePoints(CodeUnits(bs))]

\* str.encode("utf-16-le") of text inside the basic plane
EncodeUtf16(s) ==
    [i \in 1..(2 * Len(s)) |->
        IF i % 2 = 1 THEN s[(i + 1) \div 2] % 256 ELSE s[i \div 2] \div 256]

(***************************************************************************)
(* zlib, restricted to streams of one stored (uncompressed) deflate block: *)
(* CMF FLG | 01 LEN NLEN data | Adler-32 big-endian.  zlib.decompress      *)
(* raises zlib.error on a bad header, a truncated stream or a wrong        *)
(* checksum, and ignores bytes after the checksum.                         *)
(***************************************************************************)
RECURSIVE AdlerA(_)
AdlerA(bs) ==
    IF bs = <<>> THEN 1 ELSE (AdlerA(SubSeq(bs, 1, Len(bs) - 1)) + bs[Len(bs)]) % 65521

RECURSIVE AdlerB(_)
AdlerB(bs) ==
    IF bs = <<>> THEN 0 ELSE (AdlerB(SubSeq(bs, 1, Len(bs) - 1)) + AdlerA(bs)) % 65521

Adler32BE(bs) ==
    LET a == AdlerA(bs)
        b == AdlerB(bs)
    IN  <<b \div 256, b % 256, a \div 256, a % 256>>

ZlibCompress(bs) ==
    <<120, 1, 1>> \o Pack(Len(bs), 2) \o Pack(65535 - Len(bs), 2) \o bs \o Adler32BE(bs)

ZlibDecompress(block) ==
    IF Len(block) < 7 THEN [ok |-> FALSE, data |-> <<>>]
    ELSE IF block[1] # 120 \/ (block[1] * 256 + block[2]) % 31 # 0
            \/ (block[2] \div 32) % 2 = 1 \/ block[3] # 1
         THEN [ok |-> FALSE, data |-> <<>>]
    ELSE LET n == UnsignedLE(SubSeq(block, 4, 5))
             c == UnsignedLE(SubSeq(block, 6, 7))
         IN  IF n + c # 65535 \/ Len(block) < 7 + n + 4
             THEN [ok |-> FALSE, data |-> <<>>]
             ELSE LET d == SubSeq(block, 8, 7 + n) IN
                  IF SubSeq(block, 8 + n, 11 + n) # Adler32BE(d)
                  THEN [ok |-> FALSE, data |-> <<>>]
                  ELSE [ok |-> TRUE, data |-> d]

(***************************************************************************)
(* The streams the decoder is run on.  The layouts are the ones the        *)
(* decoder's comments document byte by byte; the values of the marker      *)
(* bytes (01 09, 00 LL, '$') are those of the sample bytes quoted there.   *)
(***************************************************************************)
Block(tag) == <<HASH>> \o Pack(tag, 2)

CategoryBlock(h1, cb, h2) ==
    Block(TAG_CATEGORY) \o Pack(h1, 2) \o Pack(cb, 1) \o Pack(h2, 2)

TextBlock(tag, s) ==
    Block(tag) \o <<0>> \o Pack(TEXT_OVERHEAD + 2 * Len(s), 1) \o EncodeUtf16(s)

FullLengthBlock(n) == Block(TAG_FULL_LENGTH) \o <<0, 9>> \o Pack(n, 4)

Header15(tag, i1, i2, raw) ==
    Block(tag) \o <<1, 9>> \o Pack(i1, 4) \o <<DOLLAR>> \o Pack(i2, 4) \o Pack(raw, 4)

IntTable(xs) == Flatten([i \in 1..Len(xs) |-> Pack(xs[i], 4)])

OffsetsBlock(i1, i2, offs) ==
    Header15(TAG_CHAPTER_OFFSETS, i1, i2, LEN_OVERHEAD + 4 * Len(offs))
      \o IntTable([i \in 1..Len(offs) |-> 2 * offs[i]])

TitleRecords(titles) ==
    Flatten([i \in 1..Len(titles) |->
                Pack(2 * Len(titles[i]), 1) \o EncodeUtf16(titles[i])])

TitlesBlock(i1, i2, delta, titles) ==
    Header15(TAG_CHAPTER_TITLES, i1, i2,
             LEN_OVERHEAD + Len(TitleRecords(titles)) + delta)
      \o TitleRecords(titles)

SegmentRecord(i, z) ==
    <<DOLLAR>> \o Pack(i, 4) \o Pack(LEN_OVERHEAD + Len(z), 4) \o z

ControlF1 == Block(CTRL_F1) \o <<0, 21>> \o [i \in 1..16 |-> 0]
Control0A == Block(CTRL_0A) \o <<0, 9>> \o Pack(7, 4)

TrailerRecord(i1, i2, idx) ==
    Header15(END_OF_BODY, i1, i2, LEN_OVERHEAD + 4 * Len(idx)) \o IntTable(idx)

CoverRecord(i1, i2, E, data) ==
    Block(TAG_COVER) \o <<1, 16, 1>> \o Pack(i1, 4) \o <<DOLLAR>>
      \o Pack(i2, 4) \o Pack(E, 4) \o data

(***************************************************************************)
(* A generated book: chapters (title, content), how the body bytes are cut *)
(* into segments, the segments' sequence indices, an optional cover, and   *)
(* at most one deviation from the well-formed layout.                      *)
(***************************************************************************)
Titles == {<<65>>, <<66, 67>>}
Contents == {<<>>, <<97>>, <<98, 33>>}
LongTitle == [i \in 1..LongTitleLen |-> 84]
ChapterSet == [title : Titles, content : Contents]

ChapterLists ==
    UNION {[1..n -> ChapterSet] : n \in 0..MaxChapters}
      \cup {<<[title |-> LongTitle, content |-> <<97>>]>>}

Covers == {<<>>, <<<<255, 216, 255>>>>}
Cuts == {-1, 0, 1}
IndexLists(nseg) == IF nseg = 1 THEN {<<1>>, <<-7>>} ELSE {<<1, 2>>, <<2, 1>>, <<3, 3>>}

WellFormedKinds == {"none", "ctrl_f1", "ctrl_0a"}
DeviationKinds ==
    {"bad_magic", "cat_pair", "cat_comic", "cat_other", "no_category", "no_title",
     "meta_frame", "unknown_tag", "unknown_tag_0a", "off_pair", "titles_pair",
     "more_offsets", "fewer_offsets", "no_offsets", "titles_short", "titles_long",
     "body_frame", "ctrl_other", "seg_corrupt", "odd_body", "no_end",
     "trailer_pair", "trailer_perm", "trailer_diff", "trailer_short", "trailer_long",
     "cover_pair", "cover_other_tag", "cover_one_byte", "cover_trunc", "cover_small"}

BodyText(chs) == Flatten([i \in 1..Len(chs) |-> chs[i].content])
RECURSIVE StartOffsets(_)
StartOffsets(chs) ==
    IF chs = <<>> THEN <<>>
    ELSE LET front == SubSeq(chs, 1, Len(chs) - 1) IN
         StartOffsets(front) \o <<Len(BodyText(front))>>

BodyBytes(s) ==
    EncodeUtf16(BodyText(s.chapters)) \o (IF s.dev = "odd_body" THEN <<97>> ELSE <<>>)

Payloads(s) ==
    LET b == BodyBytes(s) IN
    IF s.cut < 0 THEN <<b>>
    ELSE <<SubSeq(b, 1, s.cut), SubSeq(b, s.cut + 1, Len(b))>>

Corrupt(z) == [z EXCEPT ![Len(z)] = (z[Len(z)] + 1) % 256]

MetaBytes(s) ==
    LET d == s.dev
        offs == StartOffsets(s.chapters)
        tts == [i \in 1..Len(s.chapters) |-> s.chapters[i].title]
        offs2 == IF d = "more_offsets" THEN offs \o <<Max(Len(BodyText(s.chapters)) - 1, 0)>>
                 ELSE IF d = "fewer_offsets" THEN SubSeq(offs, 1, Len(offs) - 1)
                 ELSE offs
    IN  (IF d = "bad_magic" THEN <<137, 155, 154, 0>> ELSE MAGIC)
        \o (IF d = "no_category" THEN <<>>
            ELSE IF d = "cat_pair" THEN CategoryBlock(2048, 1, 2049)
            ELSE IF d = "cat_comic" THEN CategoryBlock(2048, 2, 2048)
            ELSE IF d = "cat_other" THEN CategoryBlock(2048, 3, 2048)
            ELSE CategoryBlock(2048, 1, 2048))
        \o (IF d = "meta_frame" THEN <<DOLLAR, 2, 0>> ELSE <<>>)
        \o (IF d = "no_title" THEN <<>> ELSE TextBlock(TAG_TEXT_FIRST, <<84>>))
        \o (IF d = "unknown_tag" THEN Block(TAG_END_OF_FILE) ELSE <<>>)
        \o (IF d = "unknown_tag_0a" THEN Block(CTRL_0A) ELSE <<>>)
        \o TextBlock(TAG_TEXT_FIRST + 1, <<65>>)
        \o FullLengthBlock(2 * Len(BodyText(s.chapters)))
        \o (IF d = "no_offsets" THEN <<>>
            ELSE OffsetsBlock(5, IF d = "off_pair" THEN 6 ELSE 5, offs2))
        \o TitlesBlock(8, IF d = "titles_pair" THEN 9 ELSE 8,
                       IF d = "titles_short" THEN -1
                       ELSE IF d = "titles_long" THEN 2 ELSE 0, tts)

ContentBytes(s) ==
    LET d == s.dev
        ps == Payloads(s)
        zs == [i \in 1..Len(ps) |->
                 IF d = "seg_corrupt" /\ i = 1 THEN Corrupt(ZlibCompress(ps[i]))
                 ELSE ZlibCompress(ps[i])]
        lst == CASE d = "trailer_perm" -> [i \in 1..Len(s.idx) |-> s.idx[Len(s.idx) + 1 - i]]
                 [] d = "trailer_diff" -> [s.idx EXCEPT ![1] = @ + 1]
                 [] d = "trailer_short" -> Tail(s.idx)
                 [] d = "trailer_long" -> s.idx \o <<9>>
                 [] OTHER -> s.idx
    IN  (IF d = "ctrl_f1" THEN ControlF1 ELSE <<>>)
        \o (IF d = "body_frame" THEN <<0>> ELSE <<>>)
        \o SegmentRecord(s.idx[1], zs[1])
        \o (IF d = "ctrl_0a" THEN Control0A ELSE <<>>)
        \o (IF d = "ctrl_other" THEN Block(TAG_END_OF_FILE) ELSE <<>>)
        \o (IF Len(ps) = 2 THEN SegmentRecord(s.idx[2], zs[2]) ELSE <<>>)
        \o (IF d = "no_end" THEN <<>>
            ELSE TrailerRecord(4, IF d = "trailer_pair" THEN 3 ELSE 4, lst))

CoverBytes(s) ==
    LET d == s.dev IN
    IF d = "cover_other_tag" THEN Block(TAG_END_OF_FILE) \o <<1, 9>>
    ELSE IF d = "cover_one_byte" THEN <<HASH>>
    ELSE IF s.cover = <<>> THEN <<>>
    ELSE LET c == s.cover[1] IN
         CoverRecord(6, IF d = "cover_pair" THEN 7 ELSE 6,
                     IF d = "cover_trunc" THEN LEN_OVERHEAD + Len(c) + 2
                     ELSE IF d = "cover_small" THEN LEN_OVERHEAD - 2
                     ELSE LEN_OVERHEAD + Len(c), c)

BuildStream(s) ==
    LET full == MetaBytes(s) \o ContentBytes(s) \o CoverBytes(s) IN
    IF s.dev = "trunc" THEN SubSeq(full, 1, s.n) ELSE full

\* the book every deviation is applied to
BaseChapters == <<[title |-> <<65>>, content |-> <<97>>],
                  [title |-> <<66, 67>>, content |-> <<98, 33>>]>>

Sources ==
    {s \in [chapters : ChapterLists, cut : Cuts, idx : IndexLists(1) \cup IndexLists(2),
            cover : Covers, dev : {"none"}, n : {0}] :
        /\ s.cut <= 2 * Len(BodyText(s.chapters))
        /\ Len(s.idx) = (IF s.cut < 0 THEN 1 ELSE 2)}
    \cup
    {s \in [chapters : {BaseChapters, <<>>}, cut : {-1, 1}, idx : {<<-7>>, <<2, 1>>},
            cover : Covers, dev : WellFormedKinds \cup DeviationKinds, n : {0}] :
        /\ s.cut <= 2 * Len(BodyText(s.chapters))
        /\ Len(s.idx) = (IF s.cut < 0 THEN 1 ELSE 2)}
    \cup
    {s \in [chapters : {BaseChapters}, cut : {1}, idx : {<<2, 1>>},
            cover : {<<<<255, 216, 255>>>>}, dev : {"trunc"}, n : 0..400] :
        s.n < Len(MetaBytes(s) \o ContentBytes(s) \o CoverBytes(s))}

IsWellFormed(s) == s.dev \in WellFormedKinds

(***************************************************************************)
(* State.                                                                  *)
(***************************************************************************)
VARIABLES
    src,            \* the generated book the stream was built from
    kind,           \* the stream's class: "BytesIO" or "BufferedReader"
    stream,         \* the bytes
    pos,            \* stream.tell()
    pc,             \* where from_stream is
    err,            \* the exception raised, "" while none
    metadata,       \* the metadata dict, keyed by block name
    splitter,       \* read_content's splitter
    content_list,   \* decompressed payloads, in read order
    rnd_lst,        \* sequence indices, in read order
    rnd_lst2,       \* the trailer's index table
    content,        \* the decoded body
    cover,          \* <<>> for None, <<bytes>> otherwise
    ch_list,        \* the chapters of the returned document
    offset1,        \* read_metadata's returned offset
    offset2,        \* read_content's returned offset
    trace           \* what the decoder unpacked on the way (see below)

vars == <<src, kind, stream, pos, pc, err, metadata, splitter, content_list,
          rnd_lst, rnd_lst2, content, cover, ch_list, offset1, offset2, trace>>

(***************************************************************************)
(* stream.read(n) at position p.  A negative n reads to the end of the     *)
(* stream, except that a buffered file object refuses n < -1 with          *)
(* ValueError.  A read past the end returns what is left.                  *)
(***************************************************************************)
Rd(p, n) ==
    IF n >= 0
    THEN LET e == Min(p + n, Len(stream)) IN
         [data |-> SubSeq(stream, p + 1, e), pos |-> e, err |-> ""]
    ELSE IF n = -1 \/ kind = "BytesIO"
    THEN [data |-> SubSeq(stream, p + 1, Len(stream)), pos |-> Len(stream), err |-> ""]
    ELSE [data |-> <<>>, pos |-> p, err |-> "ValueError"]

Field(bs, at, w) == SignedLE(SubSeq(bs, at, at + w - 1))

\* struct.unpack("<" + "i" * n, data) for a table of n signed 32-bit values
UnpackInts(data) == [i \in 1..(Len(data) \div 4) |-> Field(data, 4 * i - 3, 4)]

\* _BLOCK_TYPE_DICT.get(tag) for the text blocks 0x02..0x09
BlockTypeName(tag) ==
    CASE tag = 2 -> "title" [] tag = 3 -> "author" [] tag = 4 -> "year"
      [] tag = 5 -> "month" [] tag = 6 -> "date" [] tag = 7 -> "book_type"
      [] tag = 8 -> "publisher" [] tag = 9 -> "retailer"

Put(d, k, v) == (k :> v) @@ d
Has(d, k) == k \in DOMAIN d

\* what the decoder has unpacked so far, kept for the properties:
\*   pairs      the two copies (a, b) of each record's doubled field, per record
\*              the decoder went past
\*   skipped    tags of the records the metadata loop matched no branch for
\*   spins      iterations of read_content's loop that read nothing
\*   titles     [start, L, end] of the chapter_titles block that was consumed
\*   table      the index table the trailer declared, once it was unpacked
\*   cover_hdr  [tag, start, E] of the cover record that was unpacked
Trace0 == [pairs |-> <<>>, skipped |-> <<>>, spins |-> 0,
           titles |-> <<>>, table |-> <<>>, cover_hdr |-> <<>>]

Init ==
    /\ src \in Sources
    /\ kind \in {"BytesIO", "BufferedReader"}
    /\ stream = BuildStream(src)
    /\ pos = 0
    /\ pc = "read_metadata"
    /\ err = ""
    /\ metadata = <<>>
    /\ splitter = <<>>
    /\ content_list = <<>>
    /\ rnd_lst = <<>>
    /\ rnd_lst2 = <<>>
    /\ content = <<>>
    /\ cover = <<>>
    /\ ch_list = <<>>
    /\ offset1 = -1
    /\ offset2 = -1
    /\ trace = Trace0

\* an exception leaves from_stream: the stream keeps its position, nothing is returned
Raise(e, p) ==
    /\ pc' = "raised"
    /\ err' = e
    /\ pos' = p
    /\ UNCHANGED <<src, kind, stream, metadata, splitter, content_list, rnd_lst,
                   rnd_lst2, content, cover, ch_list, offset1, offset2, trace>>

(***************************************************************************)
(* read_metadata                                                           *)
(***************************************************************************)
ReadMagic ==
    /\ pc = "read_metadata"
    /\ LET r == Rd(pos, 4) IN
       IF r.data # MAGIC THEN Raise("ValueError", r.pos)
       ELSE /\ pc' = "meta_loop"
            /\ pos' = r.pos
            /\ UNCHANGED <<src, kind, stream, err, metadata, splitter, content_list,
                           rnd_lst, rnd_lst2, content, cover, ch_list, offset1,
                           offset2, trace>>

\* struct.unpack("<cH", stream.read(3))
BlockHeader ==
    LET r == Rd(pos, 3) IN
    [ok |-> Len(r.data) = 3,
     splitter |-> IF Len(r.data) >= 1 THEN r.data[1] ELSE -1,
     tag |-> IF Len(r.data) = 3 THEN UnsignedLE(SubSeq(r.data, 2, 3)) ELSE -1,
     pos |-> r.pos]

AtBlock == pc = "meta_loop" /\ BlockHeader.ok /\ BlockHeader.splitter = HASH

MetaHeaderFails ==
    /\ pc = "meta_loop"
    /\ ~AtBlock
    /\ Raise(IF ~BlockHeader.ok THEN "struct.error" ELSE "AssertionError", BlockHeader.pos)

MetaContinue(md, p, tr) ==
    /\ pc' = "meta_loop"
    /\ metadata' = md
    /\ pos' = p
    /\ trace' = tr
    /\ UNCHANGED <<src, kind, stream, err, splitter, content_list, rnd_lst, rnd_lst2,
                   content, cover, ch_list, offset1, offset2>>

\* {0x01: "Novel", "0x02": "Comic"}[category_byte]; <<>> stands for KeyError
CategoryName(category_byte) ==
    IF category_byte = 1 THEN <<"Novel">> ELSE <<>>

MetaCategory ==
    /\ AtBlock
    /\ BlockHeader.tag = TAG_CATEGORY
    /\ LET r == Rd(BlockHeader.pos, 5) IN
       IF Len(r.data) # 5 THEN Raise("struct.error", r.pos)
       ELSE LET h1 == Field(r.data, 1, 2)
                category_byte == Field(r.data, 3, 1)
                h2 == Field(r.data, 4, 2)
            IN  IF CategoryName(category_byte) = <<>> THEN Raise("KeyError", r.pos)
                ELSE MetaContinue(
                       Put(metadata, "category", CategoryName(category_byte)[1]), r.pos,
                       [trace EXCEPT !.pairs =
                           Append(@, [tag |-> TAG_CATEGORY, a |-> h1, b |-> h2])])

MetaText ==
    /\ AtBlock
    /\ BlockHeader.tag >= TAG_TEXT_FIRST
    /\ BlockHeader.tag < TAG_TEXT_END
    /\ LET r == Rd(BlockHeader.pos, 2) IN
       IF Len(r.data) # 2 THEN Raise("struct.error", r.pos)
       ELSE LET raw_length == Field(r.data, 2, 1)
                c == Rd(r.pos, raw_length - TEXT_OVERHEAD)
                s == DecodeUtf16(c.data)
            IN  IF c.err # "" THEN Raise(c.err, c.pos)
                ELSE IF ~s.ok THEN Raise("UnicodeDecodeError", c.pos)
                ELSE MetaContinue(Put(metadata, BlockTypeName(BlockHeader.tag), s.str),
                                  c.pos, trace)

MetaFullLength ==
    /\ AtBlock
    /\ BlockHeader.tag = TAG_FULL_LENGTH
    /\ LET r == Rd(BlockHeader.pos, 6) IN
       IF Len(r.data) # 6 THEN Raise("struct.error", r.pos)
       ELSE MetaContinue(Put(metadata, "full_length", Field(r.data, 3, 4)), r.pos, trace)

\* the assertion left out
PairUnchecked(i1, i2) == TRUE

\* assert i1 == i2
PairAgrees(i1, i2) == i1 = i2

\* int((raw - 9) / 4)
CountOf(raw) == TruncDiv(raw - LEN_OVERHEAD, 4)

\* struct.unpack("<hibii", stream.read(15))
Unpack15(p) ==
    LET r == Rd(p, 15) IN
    IF Len(r.data) # 15 THEN [ok |-> FALSE, i1 |-> 0, i2 |-> 0, raw |-> 0, pos |-> r.pos]
    ELSE [ok |-> TRUE, i1 |-> Field(r.data, 3, 4), i2 |-> Field(r.data, 8, 4),
          raw |-> Field(r.data, 12, 4), pos |-> r.pos]

\* struct.unpack("<" + "i" * n, stream.read(4 * n))
ReadTable(p, n) ==
    LET r == Rd(p, 4 * n) IN
    IF r.err # "" THEN [err |-> r.err, pos |-> r.pos, table |-> <<>>]
    ELSE IF Len(r.data) # 4 * Max(n, 0)
    THEN [err |-> "struct.error", pos |-> r.pos, table |-> <<>>]
    ELSE [err |-> "", pos |-> r.pos, table |-> UnpackInts(r.data)]

MetaChapterOffsets ==
    /\ AtBlock
    /\ BlockHeader.tag = TAG_CHAPTER_OFFSETS
    /\ LET h == Unpack15(BlockHeader.pos) IN
       IF ~h.ok THEN Raise("struct.error", h.pos)
       ELSE IF ~PairAgrees(h.i1, h.i2) THEN Raise("AssertionError", h.pos)
       ELSE LET t == ReadTable(h.pos, CountOf(h.raw)) IN
            IF t.err # "" THEN Raise(t.err, t.pos)
            ELSE MetaContinue(
                   Put(metadata, "chapter_offsets",
                       [i \in 1..Len(t.table) |-> TruncDiv(t.table[i], 2)]),
                   t.pos,
                   [trace EXCEPT !.pairs =
                       Append(@, [tag |-> TAG_CHAPTER_OFFSETS, a |-> h.i1, b |-> h.i2])])

\* struct.unpack("<b", stream.read(1))[0]
TitleLength(b) == SignedLE(<<b>>)

\* while stream.tell() < end: one length byte, then that many bytes, decoded
RECURSIVE ReadTitles(_, _, _)
ReadTitles(p, end, acc) ==
    IF ~(p < end) THEN [err |-> "", pos |-> p, titles |-> acc]
    ELSE LET l == Rd(p, 1) IN
         IF Len(l.data) # 1 THEN [err |-> "struct.error", pos |-> l.pos, titles |-> acc]
         ELSE LET c == Rd(l.pos, TitleLength(l.data[1]))
                  s == DecodeUtf16(c.data)
              IN  IF c.err # "" THEN [err |-> c.err, pos |-> c.pos, titles |-> acc]
                  ELSE IF ~s.ok
                  THEN [err |-> "UnicodeDecodeError", pos |-> c.pos, titles |-> acc]
                  ELSE ReadTitles(c.pos, end, Append(acc, s.str))

MetaChapterTitles ==
    /\ AtBlock
    /\ BlockHeader.tag = TAG_CHAPTER_TITLES
    /\ LET h == Unpack15(BlockHeader.pos) IN
       IF ~h.ok THEN Raise("struct.error", h.pos)
       ELSE IF ~PairAgrees(h.i1, h.i2) THEN Raise("AssertionError", h.pos)
       ELSE LET end == h.pos + h.raw - LEN_OVERHEAD
                t == ReadTitles(h.pos, end, <<>>)
            IN  IF t.err # "" THEN Raise(t.err, t.pos)
                ELSE /\ pc' = "meta_return"
                     /\ metadata' = Put(metadata, "chapter_titles", t.titles)
                     /\ pos' = t.pos
                     /\ trace' = [trace EXCEPT
                           !.pairs = Append(@, [tag |-> TAG_CHAPTER_TITLES,
                                                a |-> h.i1, b |-> h.i2]),
                           !.titles = <<[start |-> h.pos, L |-> h.raw, end |-> end]>>]
                     /\ UNCHANGED <<src, kind, stream, err, splitter, content_list,
                                    rnd_lst, rnd_lst2, content, cover, ch_list,
                                    offset1, offset2>>

\* the tags an if/elif branch of the loop handles
HandledTag(tag) ==
    \/ tag = TAG_CATEGORY
    \/ (tag >= TAG_TEXT_FIRST /\ tag < TAG_TEXT_END)
    \/ tag = TAG_FULL_LENGTH
    \/ tag = TAG_CHAPTER_OFFSETS
    \/ tag = TAG_CHAPTER_TITLES

\* no branch matches: the loop goes round to the next record
MetaOtherTag ==
    /\ AtBlock
    /\ ~HandledTag(BlockHeader.tag)
    /\ MetaContinue(metadata, BlockHeader.pos,
                    [trace EXCEPT !.skipped = Append(@, BlockHeader.tag)])

\* lines 115-120: body_offset, the two lookups, return
MetaReturn ==
    /\ pc = "meta_return"
    /\ IF ~Has(metadata, "title") \/ ~Has(metadata, "category")
       THEN Raise("KeyError", pos)
       ELSE /\ pc' = "read_content"
            /\ metadata' = Put(metadata, "body_offset", pos)
            /\ offset1' = pos
            /\ UNCHANGED <<src, kind, stream, pos, err, splitter, content_list, rnd_lst,
                           rnd_lst2, content, cover, ch_list, offset2, trace>>

(***************************************************************************)
(* read_content                                                            *)
(***************************************************************************)
\* lines 127-136: seek(offset1), the two empty lists, the first splitter
ContentEnter ==
    /\ pc = "read_content"
    /\ LET r == Rd(offset1, 1) IN
       /\ pc' = "content_loop"
       /\ splitter' = r.data
       /\ pos' = r.pos
       /\ content_list' = <<>>
       /\ rnd_lst' = <<>>
       /\ UNCHANGED <<src, kind, stream, err, metadata, rnd_lst2, content, cover,
                      ch_list, offset1, offset2, trace>>

ContentContinue(p, cl, rl) ==
    LET r == Rd(p, 1) IN
    /\ pc' = "content_loop"
    /\ splitter' = r.data
    /\ pos' = r.pos
    /\ content_list' = cl
    /\ rnd_lst' = rl
    /\ UNCHANGED <<src, kind, stream, err, metadata, rnd_lst2, content, cover,
                   ch_list, offset1, offset2, trace>>

\* the fixed payload a control record of this sub-type carries
ControlPayload(end_type) ==
    IF end_type = CTRL_F1 THEN 18 ELSE IF end_type = CTRL_0A THEN 6 ELSE 0

ContentControl ==
    /\ pc = "content_loop"
    /\ splitter = <<HASH>>
    /\ LET r == Rd(pos, 2) IN
       IF Len(r.data) # 2 THEN Raise("struct.error", r.pos)
       ELSE LET end_type == Field(r.data, 1, 2) IN
            IF end_type = END_OF_BODY
            THEN /\ pc' = "content_trailer"
                 /\ pos' = r.pos
                 /\ UNCHANGED <<src, kind, stream, err, metadata, splitter, content_list,
                                rnd_lst, rnd_lst2, content, cover, ch_list, offset1,
                                offset2, trace>>
            ELSE LET c == Rd(r.pos, ControlPayload(end_type)) IN
                 IF Len(c.data) # ControlPayload(end_type) THEN Raise("struct.error", c.pos)
                 ELSE ContentContinue(c.pos, content_list, rnd_lst)

ContentSegment ==
    /\ pc = "content_loop"
    /\ splitter = <<DOLLAR>>
    /\ LET r == Rd(pos, 8) IN
       IF Len(r.data) # 8 THEN Raise("struct.error", r.pos)
       ELSE LET i == Field(r.data, 1, 4)
                raw_block_length == Field(r.data, 5, 4)
                b == Rd(r.pos, raw_block_length - LEN_OVERHEAD)
                z == ZlibDecompress(b.data)
            IN  IF b.err # "" THEN Raise(b.err, b.pos)
                ELSE IF ~z.ok THEN Raise("zlib.error", b.pos)
                ELSE ContentContinue(b.pos, Append(content_list, z.data),
                                     Append(rnd_lst, i))

\* neither branch matches: the loop body does nothing and goes round again
ContentOtherByte ==
    /\ pc = "content_loop"
    /\ splitter # <<HASH>>
    /\ splitter # <<DOLLAR>>
    /\ trace.spins < MaxSpin
    /\ trace' = [trace EXCEPT !.spins = @ + 1]
    /\ UNCHANGED <<src, kind, stream, pos, pc, err, metadata, splitter, content_list,
                   rnd_lst, rnd_lst2, content, cover, ch_list, offset1, offset2>>

\* the lists compared as sets of indices, whatever their order
TableAgreesUnordered(collected, table) ==
    /\ Len(collected) = Len(table)
    /\ {collected[i] : i \in DOMAIN collected} = {table[i] : i \in DOMAIN table}

\* assert tuple(rnd_lst) == rnd_lst2
TableAgrees(collected, table) == collected = table

\* lines 165-171
ContentTrailer ==
    /\ pc = "content_trailer"
    /\ LET h == Unpack15(pos) IN
       IF ~h.ok THEN Raise("struct.error", h.pos)
       ELSE LET t == ReadTable(h.pos, CountOf(h.raw))
                s == DecodeUtf16(Flatten(content_list))
            IN  IF t.err # "" THEN Raise(t.err, t.pos)
                ELSE IF ~TableAgrees(rnd_lst, t.table)
                THEN /\ pc' = "raised"
                     /\ err' = "AssertionError"
                     /\ pos' = t.pos
                     /\ rnd_lst2' = t.table
                     /\ trace' = [trace EXCEPT !.table = <<t.table>>]
                     /\ UNCHANGED <<src, kind, stream, metadata, splitter, content_list,
                                    rnd_lst, content, cover, ch_list, offset1, offset2>>
                ELSE IF ~s.ok THEN Raise("UnicodeDecodeError", t.pos)
                ELSE /\ pc' = "read_cover"
                     /\ pos' = t.pos
                     /\ rnd_lst2' = t.table
                     /\ content' = s.str
                     /\ offset2' = t.pos
                     /\ trace' = [trace EXCEPT
                           !.pairs = Append(@, [tag |-> END_OF_BODY, a |-> h.i1, b |-> h.i2]),
                           !.table = <<t.table>>]
                     /\ UNCHANGED <<src, kind, stream, err, metadata, splitter,
                                    content_list, rnd_lst, cover, ch_list, offset1>>

(***************************************************************************)
(* read_cover                                                              *)
(***************************************************************************)
CoverReturn(c, p, tr) ==
    /\ pc' = "assemble"
    /\ cover' = c
    /\ pos' = p
    /\ trace' = tr
    /\ UNCHANGED <<src, kind, stream, err, metadata, splitter, content_list, rnd_lst,
                   rnd_lst2, content, ch_list, offset1, offset2>>

ReadCover ==
    /\ pc = "read_cover"
    /\ LET f == Rd(offset2, 1) IN
       IF f.data = <<>> THEN CoverReturn(<<>>, f.pos, trace)
       ELSE LET r == Rd(f.pos, 2) IN
            IF Len(r.data) # 2 THEN Raise("struct.error", r.pos)
            ELSE LET next_type == Field(r.data, 1, 2) IN
                 IF next_type # TAG_COVER
                 THEN CoverReturn(<<>>, r.pos,
                        [trace EXCEPT !.cover_hdr =
                            <<[tag |-> next_type, start |-> r.pos, E |-> 0]>>])
                 ELSE LET h == Rd(r.pos, 16) IN
                      IF Len(h.data) # 16 THEN Raise("struct.error", h.pos)
                      ELSE LET i1 == Field(h.data, 4, 4)
                               i2 == Field(h.data, 9, 4)
                               raw_cover_length == Field(h.data, 13, 4)
                               c == Rd(h.pos, raw_cover_length - LEN_OVERHEAD)
                           IN  IF c.err # "" THEN Raise(c.err, c.pos)
                               ELSE CoverReturn(<<c.data>>, c.pos,
                                      [trace EXCEPT
                                         !.pairs = Append(@, [tag |-> TAG_COVER,
                                                             a |-> i1, b |-> i2]),
                                         !.cover_hdr = <<[tag |-> next_type,
                                                          start |-> h.pos,
                                                          E |-> raw_cover_length]>>])

(***************************************************************************)
(* from_stream, lines 225-233.  The document is built from ch_list and    *)
(* the metadata entries; the cover read_cover returned is not handed to    *)
(* the constructor.                                                        *)
(***************************************************************************)
\* the slice of chapter i (0-based), offsets being the tuple of offsets
ChapterContent(body, offsets, i) ==
    IF i + 1 = Len(offsets) THEN PySliceFrom(body, offsets[i + 1])
    ELSE PySlice(body, offsets[i + 1], offsets[i + 2])

\* tuple indexing raises IndexError where the slice of chapter i reads past the tuple
ChapterInRange(offsets, i) ==
    IF i + 1 = Len(offsets) THEN TRUE ELSE i + 2 <= Len(offsets)

Chapters(titles, offsets, body) ==
    [i \in 1..Len(titles) |->
        [title |-> titles[i], content |-> ChapterContent(body, offsets, i - 1)]]

Assemble ==
    /\ pc = "assemble"
    /\ LET titles == metadata["chapter_titles"] IN
       IF titles # <<>> /\ ~Has(metadata, "chapter_offsets") THEN Raise("KeyError", pos)
       ELSE IF titles = <<>>
       THEN /\ pc' = "done"
            /\ ch_list' = <<>>
            /\ UNCHANGED <<src, kind, stream, pos, err, metadata, splitter, content_list,
                           rnd_lst, rnd_lst2, content, cover, offset1, offset2, trace>>
       ELSE LET offsets == metadata["chapter_offsets"] IN
            IF \E i \in 0..(Len(titles) - 1) : ~ChapterInRange(offsets, i)
            THEN Raise("IndexError", pos)
            ELSE /\ pc' = "done"
                 /\ ch_list' = Chapters(titles, offsets, content)
                 /\ UNCHANGED <<src, kind, stream, pos, err, metadata, splitter,
                                content_list, rnd_lst, rnd_lst2, content, cover,
                                offset1, offset2, trace>>

Next ==
    \/ ReadMagic
    \/ MetaHeaderFails
    \/ MetaCategory
    \/ MetaText
    \/ MetaFullLength
    \/ MetaChapterOffsets
    \/ MetaChapterTitles
    \/ MetaOtherTag
    \/ MetaReturn
    \/ ContentEnter
    \/ ContentControl
    \/ ContentSegment
    \/ ContentOtherByte
    \/ ContentTrailer
    \/ ReadCover
    \/ Assemble

Spec == Init /\ [][Next]_vars

Returned == pc = "done"

(***************************************************************************)
(* Properties.  ConsistencyError is what the decoder raises from its       *)
(* assert statements, AssertionError.                                      *)
(***************************************************************************)
ConsistencyError == "AssertionError"
ReadErrors == {"struct.error", "ValueError"}

\* the decoder is about to unpack a 15-byte header of this tag whose copies differ
PairDiffersAhead(tag) ==
    /\ AtBlock
    /\ BlockHeader.tag = tag
    /\ Unpack15(BlockHeader.pos).ok
    /\ Unpack15(BlockHeader.pos).i1 # Unpack15(BlockHeader.pos).i2

\* the 15-byte header of this tag that ends at the read position has differing copies
PairDiffersBehind(tag) ==
    /\ pos >= 22
    /\ SubSeq(stream, pos - 17, pos - 15) = Block(tag)
    /\ Unpack15(pos - 15).i1 # Unpack15(pos - 15).i2

C2_TableMatches ==
    /\ offset2 >= 0 => /\ trace.table = <<rnd_lst>>
                       /\ rnd_lst2 = rnd_lst
    /\ (trace.table # <<>> /\ trace.table # <<rnd_lst>>)
          => /\ pc = "raised"
             /\ err = ConsistencyError
             /\ offset2 < 0
             /\ content = <<>>

C2_Witness ==
    /\ offset2 >= 0
    /\ Len(rnd_lst) = 2
    /\ rnd_lst[1] > rnd_lst[2]
    /\ Len(content_list) = 2

\* C3: for every well-formed stream built from a list of (title, content)
\* pairs, from_stream neither raises nor hangs, and the document it returns
\* holds exactly those pairs in order.
C3_RoundTrip ==
    IsWellFormed(src) =>
        /\ pc # "raised"
        /\ trace.spins = 0
        /\ pc = "done" =>
              /\ Len(ch_list) = Len(src.chapters)
              /\ \A i \in DOMAIN ch_list :
                    /\ ch_list[i].title = src.chapters[i].title
                    /\ ch_list[i].content = src.chapters[i].content

\* C4: the metadata loop never goes past a record whose tag it has no branch
\* for, and it ends only by consuming a chapter_titles block.
C4_UnknownTagRejected ==
    /\ trace.skipped = <<>>
    /\ offset1 >= 0 => trace.titles # <<>>

\* the category block that ends at the read position carries this category byte
CategoryBehind(cb) ==
    /\ pos >= 12
    /\ SubSeq(stream, pos - 7, pos - 5) = Block(TAG_CATEGORY)
    /\ stream[pos - 2] = cb

\* C5: a category block whose category byte is 2 is not an error: decoding
\* goes on, with category "Comic".
C5_ComicAccepted ==
    /\ ~(pc = "raised" /\ CategoryBehind(2))
    /\ (pc = "meta_loop" /\ CategoryBehind(2))
          => (Has(metadata, "category") /\ metadata["category"] = "Comic")

OffsetsOf(md) == IF Has(md, "chapter_offsets") THEN md["chapter_offsets"] ELSE <<>>

\* C6: every document from_stream returns was assembled from as many chapter
\* offsets as chapter titles.
C6_EqualLengths ==
    pc = "done" => Len(OffsetsOf(metadata)) = Len(metadata["chapter_titles"])

\* C7: read_cover does not raise where no byte follows the body or where the
\* tag that follows is not 0x82, returning no cover there; and a cover it
\* returns is exactly the E-9 bytes after the 16-byte header of a 0x82 record.
C7_CoverOrNone ==
    /\ (offset2 >= 0 /\ offset2 = Len(stream))
          => (err \notin ReadErrors /\ cover = <<>>)
    /\ (offset2 >= 0 /\ offset2 + 3 <= Len(stream)
          /\ Field(stream, offset2 + 2, 2) # TAG_COVER)
          => (err \notin ReadErrors /\ cover = <<>>)
    /\ cover # <<>>
          => /\ trace.cover_hdr[1].tag = TAG_COVER
             /\ Len(cover[1]) = trace.cover_hdr[1].E - LEN_OVERHEAD
             /\ cover[1] = SubSeq(stream, trace.cover_hdr[1].start + 1,
                                  trace.cover_hdr[1].start + Len(cover[1]))

\* C8: in every returned document, chapter i is Body[offsets[i]:offsets[i+1]]
\* for every chapter but the last, and the last chapter of the document is
\* Body[offsets[last]:], running to the end of Body.
C8_LastChapterToEnd ==
    (pc = "done" /\ ch_list # <<>>) =>
        LET offsets == metadata["chapter_offsets"]
            n == Len(ch_list)
        IN  /\ \A i \in 1..(n - 1) :
                  ch_list[i].content = PySlice(content, offsets[i], offsets[i + 1])
            /\ ch_list[n].content = PySliceFrom(content, offsets[n])

\* C9: read_content's loop never goes round without consuming input or
\* leaving: a missing end-of-body record or a foreign framing byte is raised
\* as an error.
C9_LoopProgress == trace.spins = 0

\* C10: whenever read_metadata returns, the offset it returns, which is also
\* metadata's body_offset, is the end of the chapter_titles block: the position
\* after its 15-byte header plus L-9.
C10_TitlesBlockExact ==
    offset1 >= 0 =>
        /\ metadata["body_offset"] = offset1
        /\ offset1 = trace.titles[1].start + trace.titles[1].L - LEN_OVERHEAD
=============================================================================
